---- MODULE Spec2Model ----
(***************************************************************************)
(* A model of src/app.py, the Streamlit "Code Converter" page.             *)
(*                                                                         *)
(* Streamlit runs the whole script (main) once per user interaction.  One  *)
(* action of this module is therefore one interaction together with the    *)
(* script run (and, for a chat submission, the rerun the script asks for)  *)
(* it triggers.  Text is modelled as a sequence of one-character strings,  *)
(* so that strip, rstrip, slicing and textwrap.indent are computed as      *)
(* Python computes them.                                                   *)
(***************************************************************************)
EXTENDS Integers, Sequences, FiniteSets, TLC

VARIABLES
    from_lang,      \* st.session_state.from_lang
    to_lang,        \* st.session_state.to_lang
    prompt,         \* st.session_state.prompt (text)
    input_code,     \* st.session_state.input_code (text)
    output_code,    \* st.session_state.output_code (text)
    history,        \* st.session_state.history, newest first
    history_limit,  \* st.session_state.history_limit
    ai_open,        \* st.session_state.ai_open
    ai_messages,    \* st.session_state.ai_messages
    theme,          \* st.session_state.theme
    uploaded,       \* the files the st.file_uploader widget holds: none or one
    now,            \* the wall clock read by datetime.now(), in seconds
    notice,         \* the status messages (st.warning/info/success) of the last run
    offered,        \* what the last run rendered for the output: nothing, or the
                    \* highlight language and the download
    log             \* every entry add_to_history inserted since the history was
                    \* last empty, newest first (an observation, not program state)

vars == <<from_lang, to_lang, prompt, input_code, output_code, history,
          history_limit, ai_open, ai_messages, theme, uploaded, now, notice,
          offered, log>>

-----------------------------------------------------------------------------
(* Bounds of the model.                                                    *)

MaxCodeLen == 4      \* SpecConvert: the longest source text tried
MaxPromptLen == 2    \* SpecConvert: the longest prompt tried
MaxSnippet == 123    \* SpecPreview: the longest source text tried
MaxClock == 1        \* the clock stops advancing here
MaxInput == 4        \* Spec: the longest input_code explored
MaxDistance == 2     \* Spec: how far from the initial session
MaxEntries == 5      \* SpecHistory, SpecFixedLimit: successful conversions
MaxLimit == 4        \* SpecHistory, SpecFixedLimit: the largest limit chosen
MaxDetour == 1       \* SpecHistory: uploads held, chat submissions, seconds passed

(* Program constants.                                                      *)

SliderMin == 3
SliderMax == 30
DefaultLimit == 10
PreviewLen == 120

LANGUAGES == <<"Python", "Java", "C++", "JavaScript">>
Languages == {LANGUAGES[i] : i \in 1..Len(LANGUAGES)}
None == "None"
NoFile == {}

-----------------------------------------------------------------------------
(* Python's str operations on text.                                        *)

\* The characters str.isspace() accepts, among those the model uses.
Whitespace == {" ", "\t", "\n", "\r"}

\* The line boundaries of str.splitlines(), among the characters the model uses.
LineBreaks == {"\n", "\r"}

\* not s.strip()
IsBlank(s) == \A i \in 1..Len(s) : s[i] \in Whitespace

RECURSIVE RStrip(_)
RStrip(s) ==
    IF s # <<>> /\ s[Len(s)] \in Whitespace
    THEN RStrip(SubSeq(s, 1, Len(s) - 1))
    ELSE s

RECURSIVE LStrip(_)
LStrip(s) ==
    IF s # <<>> /\ s[1] \in Whitespace THEN LStrip(Tail(s)) ELSE s

Strip(s) == LStrip(RStrip(s))

\* The length of the first line of s, its line break ("\r\n" is one break) included.
FirstLineLen(s) ==
    LET brk == {i \in 1..Len(s) : s[i] \in LineBreaks}
    IN  IF brk = {} THEN Len(s)
        ELSE LET b == CHOOSE i \in brk : \A j \in brk : i <= j
             IN  IF s[b] = "\r" /\ b < Len(s) /\ s[b + 1] = "\n" THEN b + 1 ELSE b

\* s.splitlines(True): the lines of s, each with its line break.
RECURSIVE SplitLines(_)
SplitLines(s) ==
    IF s = <<>> THEN <<>>
    ELSE LET n == FirstLineLen(s)
         IN  <<SubSeq(s, 1, n)>> \o SplitLines(SubSeq(s, n + 1, Len(s)))

RECURSIVE Join(_)
Join(lines) == IF lines = <<>> THEN <<>> ELSE Head(lines) \o Join(Tail(lines))

\* textwrap.indent with the default predicate: it prefixes only the lines
\* that hold a non-whitespace character.
IndentEveryLine(text, prefix) ==
    Join([i \in 1..Len(SplitLines(text)) |-> prefix \o SplitLines(text)[i]])
Indent(text, prefix) ==
    LET lines == SplitLines(text)
    IN  Join([i \in 1..Len(lines) |->
                IF IsBlank(lines[i]) THEN lines[i] ELSE prefix \o lines[i]])

-----------------------------------------------------------------------------
(* Constants and helpers of the script.                                    *)

\* The name of a language as text, as the f-strings embed it.
LangText(lang) ==
    CASE lang = "Python" -> <<"P","y","t","h","o","n">>
      [] lang = "Java" -> <<"J","a","v","a">>
      [] lang = "C++" -> <<"C","+","+">>
      [] lang = "JavaScript" -> <<"J","a","v","a","S","c","r","i","p","t">>
      [] OTHER -> <<"?">>

language_to_ext_and_highlight(lang) ==
    CASE lang = "Python" -> <<".py", "python", "text/x-python">>
      [] lang = "Java" -> <<".java", "java", "text/x-java-source">>
      [] lang = "C++" -> <<".cpp", "cpp", "text/x-c++src">>
      [] lang = "JavaScript" -> <<".js", "javascript", "application/javascript">>
      [] OTHER -> <<".txt", "text", "text/plain">>

banner(from, to) ==
    <<"/","/"," ","C","o","n","v","e","r","s","i","o","n"," ","f","r","o","m"," ">>
    \o LangText(from) \o <<" ","t","o"," ">> \o LangText(to)
    \o <<" ","c","o","m","p","l","e","t","e","d","!","\n">>

comment_prefix(to) ==
    CASE to = "Python" -> <<"#", " ">>
      [] to = "Java" -> <<"/", "/", " ">>
      [] to = "C++" -> <<"/", "/", " ">>
      [] to = "JavaScript" -> <<"/", "/", " ">>
      [] OTHER -> <<"/", "/", " ">>

PromptLabel == <<"P","r","o","m","p","t",":"," ">>

prompt_block_unstripped(to, p) ==
    IF p # <<>> THEN comment_prefix(to) \o PromptLabel \o p \o <<"\n">> ELSE <<>>
prompt_block(to, p) ==
    IF Strip(p) # <<>>
    THEN comment_prefix(to) \o PromptLabel \o Strip(p) \o <<"\n">>
    ELSE <<>>

note(to) ==
    comment_prefix(to)
    \o <<"T","h","i","s"," ","i","s"," ","a"," ","p","l","a","c","e","h","o","l","d","e","r",".",
         " ","R","e","p","l","a","c","e"," ","w","i","t","h"," ","r","e","a","l"," ",
         "c","o","n","v","e","r","s","i","o","n"," ","o","u","t","p","u","t",".","\n","\n">>

original_header(from, to) ==
    comment_prefix(to) \o <<"O","r","i","g","i","n","a","l"," ">> \o LangText(from)
    \o <<" ","c","o","d","e"," ","b","e","l","o","w"," ","f","o","r"," ",
         "r","e","f","e","r","e","n","c","e",":","\n">>

original(to, code) == Indent(code, comment_prefix(to))

convert_code_placeholder(from, to, p, code) ==
    banner(from, to) \o prompt_block(to, p) \o note(to)
    \o original_header(from, to) \o original(to, code)

-----------------------------------------------------------------------------
(* The history recorder.                                                   *)

\* The one character U+2026 that add_to_history puts after a cut preview.
Ellipsis == "..."

code_preview_cut_at_limit(code) ==
    IF Len(code) >= PreviewLen
    THEN SubSeq(code, 1, PreviewLen) \o <<Ellipsis>>
    ELSE code
code_preview(code) ==
    IF Len(code) > PreviewLen
    THEN SubSeq(code, 1, PreviewLen) \o <<Ellipsis>>
    ELSE code

\* The entry add_to_history builds; t is the clock at the call.  The key
\* "from" of the source is spelled "frm": from is not an identifier here.
HistoryEntry(t, from, to, p, code) ==
    [time |-> t, frm |-> from, to |-> to, prompt |-> Strip(p),
     code_preview |-> code_preview(code)]

\* history.insert(0, entry), then history = history[:history_limit]
add_to_history_untrimmed(h, limit, entry) == <<entry>> \o h
add_to_history_at_end(h, limit, entry) ==
    SubSeq(h \o <<entry>>, 1, IF Len(h) + 1 < limit THEN Len(h) + 1 ELSE limit)
add_to_history(h, limit, entry) ==
    LET inserted == <<entry>> \o h
    IN  SubSeq(inserted, 1, IF Len(inserted) < limit THEN Len(inserted) ELSE limit)

-----------------------------------------------------------------------------
(* File ingestion.  An uploaded file is its bytes: a byte below 0x80 is    *)
(* written as the character it encodes, and "0xE9" is a byte that is not   *)
(* valid UTF-8 where the model puts it (nothing follows it as a            *)
(* continuation byte).                                                     *)

HighBytes == {"0xE9"}

\* content_bytes.decode("utf-8"), or on UnicodeDecodeError
\* content_bytes.decode("latin-1", errors="replace")
Decode(bytes) ==
    IF \A i \in 1..Len(bytes) : bytes[i] \notin HighBytes
    THEN bytes
    ELSE [i \in 1..Len(bytes) |-> IF bytes[i] = "0xE9" THEN "U+00E9" ELSE bytes[i]]

\* What the upload branch leaves in input_code.
IngestOverwrite(existing, content) == content
Ingest(existing, content) ==
    IF ~IsBlank(existing)
    THEN RStrip(existing) \o <<"\n", "\n">> \o content
    ELSE content

\* The status the upload branch shows.
IngestNotice(existing) == IF ~IsBlank(existing) THEN "appended" ELSE "loaded"

-----------------------------------------------------------------------------
(* The chat placeholder.                                                   *)

assistant_reply ==
    "I'm here to help! This AI helper will explain or refactor your code once connected to a backend."

ChatAppendReplyFirst(msgs, q) ==
    msgs \o <<[role |-> "assistant", content |-> assistant_reply],
              [role |-> "user", content |-> q]>>
ChatAppend(msgs, q) ==
    msgs \o <<[role |-> "user", content |-> q],
              [role |-> "assistant", content |-> assistant_reply]>>

-----------------------------------------------------------------------------
(* One run of the script.                                                  *)

\* "if not st.session_state.input_code.strip()": the Convert click is refused.
RejectsOnlyEmpty(code) == code = <<>>
Rejects(code) == IsBlank(code)

\* What the output area renders: nothing without output, else the syntax
\* highlight language and the download's file extension and MIME type.
Render(to, out) ==
    IF out = <<>> THEN {}
    ELSE LET t == language_to_ext_and_highlight(to)
         IN  {[ext |-> t[1], language |-> t[2], mime |-> t[3]]}

\* The interaction that triggered no widget: the rerun st.rerun() asks for.
NoEvent == [kind |-> "none", val |-> None]

\* main(), run on the session s with the widget event ev.  The result is the
\* session after the run; its field rerun tells that the run ended in st.rerun().
Script(s, ev) ==
    LET theme1 == IF ev.kind = "theme" THEN ev.val ELSE s.theme
        limit1 == IF ev.kind = "limit" THEN ev.val ELSE s.history_limit
        open1 == IF ev.kind = "ask_ai" THEN TRUE ELSE s.ai_open
        from1 == IF ev.kind = "from" THEN ev.val ELSE s.from_lang
        to1 == IF ev.kind = "to" THEN ev.val ELSE s.to_lang
        prompt1 == IF ev.kind = "prompt" THEN ev.val ELSE s.prompt
        file1 == CASE ev.kind = "upload" -> {ev.val}
                   [] ev.kind = "remove" -> NoFile
                   [] OTHER -> s.uploaded
        \* The text area's value reaches the session before the run starts.
        typed == IF ev.kind = "edit" THEN ev.val ELSE s.input_code
        \* "if uploaded is not None": the uploader hands every run the file it
        \* holds, as a new UploadedFile that read() reads from its start.
        code1 == IF file1 # NoFile
                 THEN Ingest(typed, Decode(CHOOSE f \in file1 : TRUE))
                 ELSE typed
        note1 == IF file1 # NoFile THEN {IngestNotice(typed)} ELSE {}
        do_convert == ev.kind = "convert"
        converts == do_convert /\ ~Rejects(code1)
        note2 == IF do_convert
                 THEN note1 \cup {IF converts THEN "converted" ELSE "warning"}
                 ELSE note1
        out1 == IF converts
                THEN convert_code_placeholder(from1, to1, prompt1, code1)
                ELSE s.output_code
        entry == HistoryEntry(s.now, from1, to1, prompt1, code1)
        hist1 == IF converts THEN add_to_history(s.history, limit1, entry)
                 ELSE s.history
        log1 == IF converts THEN <<entry>> \o s.log ELSE s.log
        chats == ev.kind = "chat"
        msgs1 == IF chats THEN ChatAppend(s.ai_messages, ev.val) ELSE s.ai_messages
        open2 == IF chats THEN TRUE ELSE open1
        \* st.rerun() ends the run before the History section.
        clears == ~chats /\ ev.kind = "clear" /\ hist1 # <<>>
        hist2 == IF clears THEN <<>> ELSE hist1
        log2 == IF clears THEN <<>> ELSE log1
        note3 == IF clears THEN note2 \cup {"cleared"} ELSE note2
    IN  [from_lang |-> from1, to_lang |-> to1, prompt |-> prompt1,
         input_code |-> code1, output_code |-> out1, history |-> hist2,
         history_limit |-> limit1, ai_open |-> open2, ai_messages |-> msgs1,
         theme |-> theme1, uploaded |-> file1, now |-> s.now, notice |-> note3,
         offered |-> Render(to1, out1), log |-> log2, rerun |-> chats]

Session ==
    [from_lang |-> from_lang, to_lang |-> to_lang, prompt |-> prompt,
     input_code |-> input_code, output_code |-> output_code, history |-> history,
     history_limit |-> history_limit, ai_open |-> ai_open,
     ai_messages |-> ai_messages, theme |-> theme, uploaded |-> uploaded,
     now |-> now, notice |-> notice, offered |-> offered, log |-> log]

\* The interaction ev: the run it triggers and, after st.rerun(), the next run.
Interact(ev) ==
    \E s1 \in {Script(Session, ev)} :
    \E s2 \in {IF s1.rerun THEN Script(s1, NoEvent) ELSE s1} :
        /\ from_lang' = s2.from_lang
        /\ to_lang' = s2.to_lang
        /\ prompt' = s2.prompt
        /\ input_code' = s2.input_code
        /\ output_code' = s2.output_code
        /\ history' = s2.history
        /\ history_limit' = s2.history_limit
        /\ ai_open' = s2.ai_open
        /\ ai_messages' = s2.ai_messages
        /\ theme' = s2.theme
        /\ uploaded' = s2.uploaded
        /\ now' = s2.now
        /\ notice' = s2.notice
        /\ offered' = s2.offered
        /\ log' = s2.log

-----------------------------------------------------------------------------
(* The interactions.                                                       *)

SelectTheme(t) == theme # t /\ Interact([kind |-> "theme", val |-> t])

SetHistorySize(n) ==
    /\ n \in SliderMin..SliderMax
    /\ n # history_limit
    /\ Interact([kind |-> "limit", val |-> n])

AskAI == Interact([kind |-> "ask_ai", val |-> None])

SelectFrom(l) == l # from_lang /\ Interact([kind |-> "from", val |-> l])

SelectTo(l) == l # to_lang /\ Interact([kind |-> "to", val |-> l])

TypePrompt(p) == p # prompt /\ Interact([kind |-> "prompt", val |-> p])

Upload(f) == Interact([kind |-> "upload", val |-> f])

RemoveFile == uploaded # NoFile /\ Interact([kind |-> "remove", val |-> None])

EditCode(c) == c # input_code /\ Interact([kind |-> "edit", val |-> c])

Convert == Interact([kind |-> "convert", val |-> None])

\* The download button is there only with output; its click reruns the script.
Download == output_code # <<>> /\ Interact([kind |-> "download", val |-> None])

\* st.chat_input returns only a non-empty question.
Chat(q) == q # "" /\ Interact([kind |-> "chat", val |-> q])

\* The button is there only with a history.
ClearHistory == history # <<>> /\ Interact([kind |-> "clear", val |-> None])

\* Time passes between interactions.
Tick ==
    /\ now < MaxClock
    /\ now' = now + 1
    /\ UNCHANGED <<from_lang, to_lang, prompt, input_code, output_code, history,
                   history_limit, ai_open, ai_messages, theme, uploaded, notice,
                   offered, log>>

-----------------------------------------------------------------------------
(* The session: every interaction, from the state init_session_state       *)
(* leaves.                                                                 *)

Init ==
    /\ from_lang = "Python"
    /\ to_lang = "JavaScript"
    /\ prompt = <<>>
    /\ input_code = <<>>
    /\ output_code = <<>>
    /\ history = <<>>
    /\ history_limit = DefaultLimit
    /\ ai_open = FALSE
    /\ ai_messages = <<>>
    /\ theme = "Light"
    /\ uploaded = NoFile
    /\ now = 0
    /\ notice = {}
    /\ offered = {}
    /\ log = <<>>

\* What the user picks, types and uploads in the session explored.
Themes == {"Light", "Dark"}
SizesTried == {SliderMin, DefaultLimit}
FromTried == {"Python", "Java"}
ToTried == {"JavaScript", "Python"}
PromptsTried == {<<>>, <<" ", "p">>}
CodesTried == {<<>>, <<"x", " ">>, <<" ">>}
FilesTried == {<<"0xE9">>, <<"\n">>}
Questions == {"What does this do?"}

\* How far the session is from its initial state: the settings changed, the
\* file held, the conversions recorded, the chat submissions, the seconds passed.
Distance ==
    Cardinality({k \in 1..5 :
        \/ k = 1 /\ theme # "Light"
        \/ k = 2 /\ history_limit # DefaultLimit
        \/ k = 3 /\ from_lang # "Python"
        \/ k = 4 /\ to_lang # "JavaScript"
        \/ k = 5 /\ prompt # <<>>})
    + Cardinality(uploaded) + Len(log) + Len(ai_messages) \div 2 + now

\* The part of the session explored.
Explored == Len(input_code) <= MaxInput /\ Distance <= MaxDistance

Next ==
    \/ (\E t \in Themes : SelectTheme(t)) /\ Explored'
    \/ (\E n \in SizesTried : SetHistorySize(n)) /\ Explored'
    \/ AskAI /\ Explored'
    \/ (\E l \in FromTried : SelectFrom(l)) /\ Explored'
    \/ (\E l \in ToTried : SelectTo(l)) /\ Explored'
    \/ (\E p \in PromptsTried : TypePrompt(p)) /\ Explored'
    \/ (\E f \in FilesTried : Upload(f)) /\ Explored'
    \/ RemoveFile /\ Explored'
    \/ (\E c \in CodesTried : EditCode(c)) /\ Explored'
    \/ Convert /\ Explored'
    \/ Download /\ Explored'
    \/ (\E q \in Questions : Chat(q)) /\ Explored'
    \/ ClearHistory /\ Explored'
    \/ Tick /\ Explored'

Spec == Init /\ [][Next]_vars

-----------------------------------------------------------------------------
(* The placeholder conversion on its own: the user has picked the          *)
(* languages and typed a prompt and a source text, and clicks Convert.     *)

\* Every text over the alphabet, up to the length n.
Texts(alphabet, n) == UNION {[1..k -> alphabet] : k \in 0..n}

CodeAlphabet == {"x", " ", "\n", "\r"}
PromptAlphabet == {"p", " "}

InitConvert ==
    /\ from_lang \in Languages
    /\ to_lang \in Languages
    /\ prompt \in Texts(PromptAlphabet, MaxPromptLen)
    /\ input_code \in Texts(CodeAlphabet, MaxCodeLen)
    /\ output_code = <<>>
    /\ history = <<>>
    /\ history_limit = DefaultLimit
    /\ ai_open = FALSE
    /\ ai_messages = <<>>
    /\ theme = "Light"
    /\ uploaded = NoFile
    /\ now = 0
    /\ notice = {}
    /\ offered = {}
    /\ log = <<>>

NextConvert == Convert /\ log = <<>>

SpecConvert == InitConvert /\ [][NextConvert]_vars

-----------------------------------------------------------------------------
(* The history preview on its own: source texts around the preview length. *)

\* A text of n characters with a line break at every k-th place.
Snippet(n, k) == [i \in 1..n |-> IF i % k = 0 THEN "\n" ELSE "x"]

InitPreview ==
    /\ from_lang = "Python"
    /\ to_lang = "JavaScript"
    /\ prompt = <<>>
    /\ input_code \in {Snippet(n, k) : n \in 1..MaxSnippet, k \in {2, 7}}
    /\ output_code = <<>>
    /\ history = <<>>
    /\ history_limit = DefaultLimit
    /\ ai_open = FALSE
    /\ ai_messages = <<>>
    /\ theme = "Light"
    /\ uploaded = NoFile
    /\ now = 0
    /\ notice = {}
    /\ offered = {}
    /\ log = <<>>

NextPreview == Convert /\ log = <<>>

SpecPreview == InitPreview /\ [][NextPreview]_vars

-----------------------------------------------------------------------------
(* The history under a limit that stays: the user has set the slider and   *)
(* typed a source text, and converts again and again.                      *)

LimitsTried == (SliderMin..MaxLimit) \cup {DefaultLimit}
SourcesTried == {<<"x">>, <<"y">>}

InitFixedLimit ==
    /\ from_lang = "Python"
    /\ to_lang = "JavaScript"
    /\ prompt = <<>>
    /\ input_code = <<"x">>
    /\ output_code = <<>>
    /\ history = <<>>
    /\ history_limit \in SliderMin..MaxLimit
    /\ ai_open = FALSE
    /\ ai_messages = <<>>
    /\ theme = "Light"
    /\ uploaded = NoFile
    /\ now = 0
    /\ notice = {}
    /\ offered = {}
    /\ log = <<>>

NextFixedLimit ==
    \/ Convert /\ Len(log') <= MaxEntries
    \/ \E c \in SourcesTried : EditCode(c)
    \/ Tick

SpecFixedLimit == InitFixedLimit /\ [][NextFixedLimit]_vars

-----------------------------------------------------------------------------
(* The history under a limit that moves: conversions, the slider, Clear    *)
(* History, and on the way an upload, a chat submission, a second passing. *)

Detour ==
    Cardinality(uploaded) + Len(ai_messages) \div 2 + now

ExploredHistory ==
    /\ Len(log) <= MaxEntries
    /\ Len(input_code) <= MaxInput
    /\ Detour <= MaxDetour

NextHistory ==
    \/ Convert /\ ExploredHistory'
    \/ (\E n \in LimitsTried : SetHistorySize(n)) /\ ExploredHistory'
    \/ ClearHistory /\ ExploredHistory'
    \/ EditCode(<<"x">>) /\ ExploredHistory'
    \/ Upload(<<"\n">>) /\ ExploredHistory'
    \/ RemoveFile /\ ExploredHistory'
    \/ (\E q \in Questions : Chat(q)) /\ ExploredHistory'
    \/ Tick /\ ExploredHistory'

SpecHistory == Init /\ [][NextHistory]_vars

-----------------------------------------------------------------------------
(* What the claims speak of.                                               *)

\* The last run converted: it showed the success message.
Converted == "converted" \in notice

IsPrefix(p, t) == Len(p) <= Len(t) /\ SubSeq(t, 1, Len(p)) = p

Min(a, b) == IF a < b THEN a ELSE b

\* The lines of the output and of the source text it was made from.
OutLines == SplitLines(output_code)
CodeLines == SplitLines(input_code)

\* The lines before the commented source: the banner, the prompt line if the
\* prompt is not blank, the disclaimer, the empty line after it, the header.
HeadLines == IF IsBlank(prompt) THEN 4 ELSE 5

\* The target language the banner of an output names.
BannerTarget(out) ==
    CHOOSE l \in Languages : \E f \in Languages : IsPrefix(banner(f, l), out)

\* C1 as stated: in every reachable state the history is no longer than the
\* configured history_limit.
C1_HistoryWithinLimit == Len(history) <= history_limit

\* C1, amended: right after a successful conversion the history is no longer
\* than history_limit; and a step that takes the history from within the limit
\* to beyond it is a lowering of the limit that leaves the history as it was.
C1_HistoryWithinLimitAfterConversion ==
    [][/\ Converted' => Len(history') <= history_limit'
       /\ (Len(history) <= history_limit /\ Len(history') > history_limit')
            => (history_limit' < history_limit /\ history' = history)]_vars

\* C1's case: a conversion has just cut the history down to the limit.
C1_Witness ==
    Converted /\ Len(history) = history_limit /\ Len(log) > history_limit

\* C2: from an empty history and with the limit held at N, once more than N
\* conversions have succeeded (N+1 among them) the history holds exactly N
\* entries, the N latest, the latest first; and at any time it is the latest
\* conversions, latest first, with times that never grow down the list.
C2_KeepsNewest ==
    /\ Len(history) = Min(Len(log), history_limit)
    /\ \A i \in 1..Len(history) : history[i] = log[i]
    /\ \A i \in 1..Len(history) : \A j \in i..Len(history) :
            history[i].time >= history[j].time

\* C2's case: N+1 conversions under the limit N, the oldest unlike the rest.
C2_Witness ==
    /\ Len(log) = history_limit + 1
    /\ \A i \in 1..history_limit : log[i] # log[Len(log)]

\* C3 as stated: the output ends with the lines of the source text, every
\* one of them prefixed by the comment token of the target language.
C3_EveryLinePrefixed ==
    Converted =>
        /\ Len(OutLines) = HeadLines + Len(CodeLines)
        /\ \A i \in 1..Len(CodeLines) :
                OutLines[HeadLines + i] = comment_prefix(to_lang) \o CodeLines[i]

\* C3, amended: the output ends with the lines of the source text, each line
\* that holds a non-whitespace character prefixed by the comment token of the
\* target language, each empty or whitespace-only line as it is.
C3_NonBlankLinesPrefixed ==
    Converted =>
        /\ Len(OutLines) = HeadLines + Len(CodeLines)
        /\ \A i \in 1..Len(CodeLines) :
                OutLines[HeadLines + i] =
                    IF IsBlank(CodeLines[i]) THEN CodeLines[i]
                    ELSE comment_prefix(to_lang) \o CodeLines[i]

\* C3's case: a converted source text of several lines, one of them blank.
C3_Witness ==
    /\ Converted
    /\ \E i, j \in 1..Len(CodeLines) :
            IsBlank(CodeLines[i]) /\ ~IsBlank(CodeLines[j])

\* C7: with a blank prompt the output is the banner, the disclaimer, the
\* header and the commented source, and none of its head lines is a prompt
\* line; with any other prompt the one line after the banner is the prompt
\* line, which carries the stripped prompt, and the disclaimer follows it.
C7_BlankPromptIsAbsent ==
    Converted =>
        LET pre == comment_prefix(to_lang)
            rest == note(to_lang) \o original_header(from_lang, to_lang)
                    \o original(to_lang, input_code)
            promptLines == {i \in 1..HeadLines : IsPrefix(pre \o PromptLabel, OutLines[i])}
        IN  IF IsBlank(prompt)
            THEN /\ output_code = banner(from_lang, to_lang) \o rest
                 /\ promptLines = {}
            ELSE /\ output_code = banner(from_lang, to_lang) \o pre \o PromptLabel
                                  \o Strip(prompt) \o <<"\n">> \o rest
                 /\ promptLines = {2}

\* C7's case: a conversion under a prompt of whitespace only.
C7_Witness == Converted /\ prompt # <<>> /\ IsBlank(prompt)

\* C8: the preview of a source text of at most 120 characters is the text;
\* that of a longer one is its first 120 characters, then the ellipsis.
C8_PreviewCut ==
    Converted =>
        LET preview == history[1].code_preview
        IN  IF Len(input_code) <= PreviewLen
            THEN preview = input_code
            ELSE /\ Len(preview) = PreviewLen + 1
                 /\ SubSeq(preview, 1, PreviewLen) = SubSeq(input_code, 1, PreviewLen)
                 /\ preview[PreviewLen + 1] = Ellipsis

\* C8's case: a source text of 121 characters has been converted.
C8_Witness == Converted /\ Len(input_code) = PreviewLen + 1

\* C4 as stated: an upload into a blank input leaves the decoded content;
\* an upload into any other input leaves the input as it was, an empty line,
\* then the decoded content.
C4_AppendsToExisting ==
    [][\A f \in FilesTried : Upload(f) =>
            input_code' = IF IsBlank(input_code) THEN Decode(f)
                          ELSE input_code \o <<"\n", "\n">> \o Decode(f)]_vars

\* C4, amended: an upload into a blank input leaves the decoded content; an
\* upload into any other input leaves the input without its trailing
\* whitespace, an empty line, then the decoded content.
C4_AppendsToStripped ==
    [][\A f \in FilesTried : Upload(f) =>
            input_code' = IF IsBlank(input_code) THEN Decode(f)
                          ELSE RStrip(input_code) \o <<"\n", "\n">> \o Decode(f)]_vars

\* C4's case: a file has been appended to an input that ended in whitespace.
C4_Witness ==
    /\ "appended" \in notice
    /\ uploaded = {<<"0xE9">>}
    /\ input_code = <<"x", "\n", "\n", "U+00E9">>

\* C5: a Convert click on a blank input shows the warning and leaves the
\* output, the history, the chat messages and the chat panel's flag alone.
C5_BlankInputRejected ==
    [][(Convert /\ IsBlank(input_code)) =>
            /\ "warning" \in notice'
            /\ UNCHANGED <<output_code, history, ai_messages, ai_open, log>>]_vars

\* C5's case: the warning is up over an input of whitespace only.
C5_Witness ==
    "warning" \in notice /\ input_code # <<>> /\ IsBlank(input_code)

\* C6: a chat submission of q appends (user, q) then (assistant, the fixed
\* reply) and opens the panel; no step but a chat submission changes the
\* messages; so the messages alternate user, assistant.
C6_ChatAppendsPairs ==
    [][/\ \A q \in Questions : Chat(q) =>
            /\ ai_messages' = ai_messages
                    \o <<[role |-> "user", content |-> q],
                         [role |-> "assistant", content |-> assistant_reply]>>
            /\ ai_open' = TRUE
       /\ ai_messages' # ai_messages => \E q \in Questions : Chat(q)
       /\ Len(ai_messages') % 2 = 0
       /\ \A i \in 1..Len(ai_messages') :
            ai_messages'[i].role = IF i % 2 = 1 THEN "user" ELSE "assistant"]_vars

\* C6's case: a question has been answered and a conversion recorded.
C6_Witness == Len(ai_messages) = 2 /\ history # <<>>

\* C9: while a file is held, a run that Convert, Ask AI, a chat submission,
\* Clear History, the theme or the history size triggers leaves input_code.
C9_IngestedOnce ==
    [][(/\ uploaded # NoFile
        /\ \/ Convert
           \/ AskAI
           \/ \E q \in Questions : Chat(q)
           \/ ClearHistory
           \/ \E t \in Themes : SelectTheme(t)
           \/ \E n \in SizesTried : SetHistorySize(n))
            => input_code' = input_code]_vars

\* C10: with output, the highlight language and the download's extension and
\* MIME type are those of the target language the output's banner names.
C10_DownloadMatchesOutput ==
    output_code # <<>> =>
        offered = Render(BannerTarget(output_code), output_code)

====
